---- MODULE Spec2Model ----
(***************************************************************************)
(* Model of setlist_to_navidrome.py: one run of main() against the two     *)
(* remote services (setlist.fm read API, Navidrome/Subsonic REST API).     *)
(*                                                                         *)
(* Python values are represented as follows.  None is the marker string    *)
(* NoneVal; text is a TLA+ string, except the setlist reference            *)
(* (--setlist-id / --setlist-url), which is a sequence of one-character    *)
(* strings wrapped in an optional record so that rstrip and split can be   *)
(* computed character by character.                                        *)
(***************************************************************************)
EXTENDS Integers, Sequences, FiniteSets, TLC

VARIABLES
    env,          \* module-level configuration read from the environment
    args,         \* parsed command line
    setlistfm,    \* what the setlist.fm server answers for the fetch
    pc,           \* position of main(): start, fetch, parse, loop, create, done
    exit_code,    \* process exit status (meaningful when pc = "done")
    raised,       \* TRUE when the run ended in an unhandled exception
    printed_ok,   \* TRUE when "Spellista skapad." was printed
    setlist_id,   \* local setlist_id of main()
    js,           \* parsed setlist document
    all_songs,    \* result of parse_songs_from_setlist
    songs,        \* songs after truncation to --max-songs
    idx,          \* 1-based position of the for loop in songs
    matched_ids,  \* matched_ids list
    results,      \* per-title console lines (Matched / INGEN match / Fel)
    requests,     \* outbound HTTP requests in the order issued
    create_answer,\* what the server answered to createPlaylist
    fn_in,        \* input of the function applied in the function-level specs
    fn_out        \* its result

vars == <<env, args, setlistfm, pc, exit_code, raised, printed_ok, setlist_id,
          js, all_songs, songs, idx, matched_ids, results, requests,
          create_answer, fn_in, fn_out>>

----------------------------------------------------------------------------
(* Bounds of the model *)

MaxTitles == 2        \* song entries of a setlist document in the run specs
MaxHits == 1          \* song elements of a search response in the run specs
MaxSets == 2          \* sets of a document in the parse specification
MaxSongsPerSet == 2   \* song entries of one set in the parse specification
MaxSongElems == 3     \* song elements of a response in the extract specification

----------------------------------------------------------------------------
(* Python primitives *)

NoneVal == "None"

Truthy(v) == v # NoneVal /\ v # ""

Min(a, b) == IF a < b THEN a ELSE b

Max(a, b) == IF a > b THEN a ELSE b

SeqsUpTo(S, n) == UNION {[1..k -> S] : k \in 0..n}

\* s[:n] for a list s and an int n
SliceTo(s, n) ==
    LET stop == IF n < 0 THEN Max(Len(s) + n, 0) ELSE Min(n, Len(s))
    IN  SubSeq(s, 1, stop)

\* optional character strings (argparse values that may be None)
NoStr == [some |-> FALSE, s |-> <<>>]

Str(chars) == [some |-> TRUE, s |-> chars]

TruthyStr(o) == o.some /\ o.s # <<>>

RECURSIVE RStrip(_, _)
\* s.rstrip(c)
RStrip(s, c) ==
    IF s # <<>> /\ s[Len(s)] = c THEN RStrip(SubSeq(s, 1, Len(s) - 1), c) ELSE s

RECURSIVE LastSegment(_, _)
\* s.split(c)[-1]
LastSegment(s, c) ==
    IF s = <<>> THEN <<>>
    ELSE IF s[Len(s)] = c THEN <<>>
    ELSE LastSegment(SubSeq(s, 1, Len(s) - 1), c) \o <<s[Len(s)]>>

RECURSIVE Flatten(_)
Flatten(ss) == IF ss = <<>> THEN <<>> ELSE Head(ss) \o Flatten(Tail(ss))

\* requests.Response.raise_for_status raises for 4xx and 5xx only
RaisesForStatus(status) == status >= 400 /\ status < 600

----------------------------------------------------------------------------
(* Utilities *)

\* the values random_salt(8) may return (two of the 36^8 strings)
random_salt == {"k3x9a0bz", "q7m2c4dw"}

md5hex(s) == "md5(" \o s \o ")"

----------------------------------------------------------------------------
(* setlist.fm *)

\* json_obj.get("sets", {}).get("set", []) or [] ; [kind, items]
\* kind "raise" stands for the AttributeError of .get on a non-dict
SetsOf(json_obj) ==
    IF json_obj.sets.kind = "absent" THEN [kind |-> "ok", items |-> <<>>]
    ELSE IF json_obj.sets.kind # "obj" THEN [kind |-> "raise", items |-> <<>>]
    ELSE IF json_obj.sets.set.kind = "list"
         THEN [kind |-> "ok", items |-> json_obj.sets.set.items]
         ELSE [kind |-> "ok", items |-> <<>>]

\* s.get("song", []) or []
SongsOf(s) == IF s.kind = "list" THEN s.items ELSE <<>>

parse_songs_from_setlist(json_obj) ==
    LET sets == SetsOf(json_obj)
        entries == Flatten([i \in 1..Len(sets.items) |-> SongsOf(sets.items[i])])
    IN  IF sets.kind = "raise"
        THEN [raised |-> TRUE, songs |-> <<>>]
        ELSE [raised |-> FALSE, songs |-> SelectSeq(entries, Truthy)]

----------------------------------------------------------------------------
(* Navidrome / Subsonic helpers *)

CLIENT_ID == "setlist-sync"

\* the token computed from the password alone
subsonic_params_unsalted(username, password, s) ==
    [u |-> username, t |-> md5hex(password), s |-> s,
     v |-> "1.16.1", c |-> CLIENT_ID]

subsonic_params(username, password, s) ==
    [u |-> username, t |-> md5hex(password \o s), s |-> s,
     v |-> "1.16.1", c |-> CLIENT_ID]

\* q of search_song
SearchQuery(artist, title) ==
    IF Truthy(artist) THEN artist \o " " \o title ELSE title

\* song.get('title') or song.get('name')
SongName(song) == IF Truthy(song.title) THEN song.title ELSE song.name

\* root.findall('.//{ns}song') + root.findall('.//song')
FoundSongs(xml) ==
    SelectSeq(xml, LAMBDA e : e.ns) \o SelectSeq(xml, LAMBDA e : ~e.ns)

extract_song_ids_from_search_xml(xml) ==
    LET found == SelectSeq(FoundSongs(xml), LAMBDA e : Truthy(e.id))
    IN  [i \in 1..Len(found) |-> <<found[i].id, SongName(found[i])>>]

\* params of create_playlist: songId[i], i from 0
SongIdParams(song_ids) ==
    [i \in 0..(Len(song_ids) - 1) |-> song_ids[i + 1]]

----------------------------------------------------------------------------
(* The remote services: the answers they may give *)

DefaultMaxSongs == 200

Names == {NoneVal, "", "A", "B"}

Titles == {"A", "B"}

TrackIds == {"id1", "id2"}

NoField == [kind |-> "absent", items |-> <<>>]

NullField == [kind |-> "null", items |-> <<>>]

ListField(items) == [kind |-> "list", items |-> items]

\* one element of "set": its "song" field absent, null or a list of entries,
\* an entry being represented by what song.get("name") returns
SetObjs(names, n) ==
    {NoField, NullField} \cup {ListField(e) : e \in SeqsUpTo(names, n)}

\* the "sets" field: absent, null, a bare list of sets, or an object whose
\* "set" field is absent, null or a list of sets
SetsFields(names, m, n) ==
    {[kind |-> k, set |-> NoField] : k \in {"absent", "null"}}
    \cup {[kind |-> k, set |-> ListField(ss)] :
             k \in {"list", "obj"}, ss \in SeqsUpTo(SetObjs(names, n), m)}
    \cup {[kind |-> "obj", set |-> f] : f \in {NoField, NullField}}

ArtistFields ==
    {[kind |-> "absent", name |-> NoneVal], [kind |-> "null", name |-> NoneVal],
     [kind |-> "obj", name |-> "Band"]}

ParseDocs == [artist : {[kind |-> "obj", name |-> "Band"]},
              sets : SetsFields(Names, MaxSets, MaxSongsPerSet)]

\* documents of the run specifications: no "sets", a bare list of one set,
\* or sets.set holding one set of at most MaxTitles named songs
RunSets ==
    {[kind |-> "absent", set |-> NoField]}
    \cup {[kind |-> "list", set |-> ListField(<<ListField(<<"A", "B">>)>>)]}
    \cup {[kind |-> "obj", set |-> ListField(<<ListField(e)>>)] :
             e \in SeqsUpTo(Titles, MaxTitles)}

RunDocs == [artist : ArtistFields, sets : RunSets]

NoDoc == [artist |-> [kind |-> "absent", name |-> NoneVal],
          sets |-> [kind |-> "absent", set |-> NoField]]

\* answers of GET api.setlist.fm: no answer (timeout, connection error) or a
\* status with a body that is JSON or not
FetchAnswers(docs) ==
    {[kind |-> "timeout", status |-> 0, json |-> FALSE, body |-> NoDoc],
     [kind |-> "response", status |-> 404, json |-> TRUE, body |-> NoDoc],
     [kind |-> "response", status |-> 200, json |-> FALSE, body |-> NoDoc]}
    \cup {[kind |-> "response", status |-> 200, json |-> TRUE, body |-> d] :
             d \in docs}

\* a song element of a search3 answer, in or out of the subsonic namespace
SongElems == [ns : BOOLEAN, id : {NoneVal, ""} \cup TrackIds,
              title : {"T"}, name : {NoneVal}]

XmlDocs(n) == SeqsUpTo(SongElems, n)

SearchAnswers(n) ==
    {[kind |-> "timeout", status |-> 0, wellformed |-> FALSE, xml |-> <<>>],
     [kind |-> "response", status |-> 500, wellformed |-> TRUE, xml |-> <<>>],
     [kind |-> "response", status |-> 200, wellformed |-> FALSE, xml |-> <<>>]}
    \cup {[kind |-> "response", status |-> 200, wellformed |-> TRUE, xml |-> x] :
             x \in XmlDocs(n)}

NoAnswer == [kind |-> "none", status |-> 0]

CreateAnswers ==
    {[kind |-> "timeout", status |-> 0]}
    \cup {[kind |-> "response", status |-> st] : st \in {200, 201, 304, 404, 500}}

----------------------------------------------------------------------------
(* Main flow *)

\* the check of line 128 left out
ConfigMissing_nav_only(e) ==
    ~Truthy(e.NAV_BASE_URL) \/ ~Truthy(e.NAV_USERNAME) \/ ~Truthy(e.NAV_PASSWORD)

\* line 125 and line 128
ConfigMissing(e) ==
    \/ ~Truthy(e.NAV_BASE_URL) \/ ~Truthy(e.NAV_USERNAME) \/ ~Truthy(e.NAV_PASSWORD)
    \/ ~Truthy(e.SETLISTFM_API_KEY)

\* lines 132-135
ResolveSetlistId(a) ==
    IF ~TruthyStr(a.setlist_id) /\ TruthyStr(a.setlist_url)
    THEN Str(LastSegment(RStrip(a.setlist_url.s, "/"), "/"))
    ELSE a.setlist_id

\* args.artist or js.get("artist", {}).get("name")
ArtistHint(a, json_obj) ==
    IF Truthy(a.artist) THEN [raised |-> FALSE, value |-> a.artist]
    ELSE IF json_obj.artist.kind = "null" THEN [raised |-> TRUE, value |-> NoneVal]
    ELSE [raised |-> FALSE, value |-> json_obj.artist.name]

\* the body of the try: search_song, then extract, then the choice of ids[0][0]
SearchResult(answer) ==
    IF answer.kind = "timeout" THEN [outcome |-> "fail", err |-> "Timeout", id |-> NoneVal]
    ELSE IF RaisesForStatus(answer.status)
         THEN [outcome |-> "fail", err |-> "HTTPError", id |-> NoneVal]
    ELSE IF ~answer.wellformed
         THEN [outcome |-> "fail", err |-> "ParseError", id |-> NoneVal]
    ELSE LET ids == extract_song_ids_from_search_xml(answer.xml)
         IN  IF ids # <<>>
             THEN [outcome |-> "match", err |-> NoneVal, id |-> ids[1][1]]
             ELSE [outcome |-> "nomatch", err |-> NoneVal, id |-> NoneVal]

\* except requests.RequestException
Caught_requests_only(err) == err \in {"Timeout", "HTTPError"}

\* except Exception
Caught(err) == err \in {"AttributeError", "Timeout", "HTTPError", "ParseError"}

\* matched_ids.insert(0, chosen_id)
AppendMatched_prepend(ids, chosen_id) == <<chosen_id>> \o ids

\* matched_ids.append(chosen_id)
AppendMatched(ids, chosen_id) == Append(ids, chosen_id)

\* if not songs
NoSongsFound(l) == l = <<>>

\* the check of line 168 left out
NothingMatched_never(l) == FALSE

\* if not matched_ids
NothingMatched(l) == l = <<>>

Request(kind, params, arg, title) ==
    [kind |-> kind, s |-> params.s, t |-> params.t, u |-> params.u,
     arg |-> arg, title |-> title]

NoParams == [u |-> NoneVal, t |-> NoneVal, s |-> NoneVal]

Exit(code, unhandled) ==
    /\ pc' = "done"
    /\ exit_code' = code
    /\ raised' = unhandled

ValidateConfig ==
    /\ pc = "start"
    /\ IF ConfigMissing(env) THEN Exit(2, FALSE) /\ setlist_id' = setlist_id
       ELSE LET sid == ResolveSetlistId(args)
            IN  /\ setlist_id' = sid
                /\ IF ~TruthyStr(sid) THEN Exit(2, FALSE)
                   ELSE pc' = "fetch" /\ UNCHANGED <<exit_code, raised>>
    /\ UNCHANGED <<env, args, setlistfm, printed_ok, js, all_songs, songs, idx,
                   matched_ids, results, requests, create_answer, fn_in, fn_out>>

\* line 142: js = fetch_setlist_by_id(setlist_id)
FetchSetlist ==
    /\ pc = "fetch"
    /\ IF ~Truthy(env.SETLISTFM_API_KEY)
       THEN Exit(1, TRUE) /\ UNCHANGED <<js, requests>>
       ELSE /\ requests' = Append(requests, Request("fetch", NoParams, setlist_id.s, NoneVal))
            /\ IF \/ setlistfm.kind = "timeout"
                  \/ RaisesForStatus(setlistfm.status)
                  \/ ~setlistfm.json
               THEN Exit(1, TRUE) /\ js' = js
               ELSE /\ js' = setlistfm.body
                    /\ pc' = "parse"
                    /\ UNCHANGED <<exit_code, raised>>
    /\ UNCHANGED <<env, args, setlistfm, printed_ok, setlist_id, all_songs, songs,
                   idx, matched_ids, results, create_answer, fn_in, fn_out>>

\* lines 143-150
ParseSetlist ==
    /\ pc = "parse"
    /\ LET parsed == parse_songs_from_setlist(js)
       IN  IF parsed.raised
           THEN Exit(1, TRUE) /\ UNCHANGED <<all_songs, songs>>
           ELSE /\ all_songs' = parsed.songs
                /\ IF NoSongsFound(parsed.songs)
                   THEN Exit(1, FALSE) /\ songs' = songs
                   ELSE /\ songs' = SliceTo(parsed.songs, args.max_songs)
                        /\ pc' = "loop"
                        /\ UNCHANGED <<exit_code, raised>>
    /\ UNCHANGED <<env, args, setlistfm, printed_ok, setlist_id, js, idx,
                   matched_ids, results, requests, create_answer, fn_in, fn_out>>

\* one iteration of the for loop, lines 153-166
SearchTitle ==
    /\ pc = "loop"
    /\ idx <= Len(songs)
    /\ LET title == songs[idx]
           hint == ArtistHint(args, js)
       IN  \E salt \in random_salt, answer \in SearchAnswers(MaxHits) :
             LET res == IF hint.raised
                        THEN [outcome |-> "fail", err |-> "AttributeError", id |-> NoneVal]
                        ELSE SearchResult(answer)
                 req == Request("search3",
                                subsonic_params(env.NAV_USERNAME, env.NAV_PASSWORD, salt),
                                SearchQuery(hint.value, title), title)
             IN  /\ requests' = IF hint.raised THEN requests ELSE Append(requests, req)
                 /\ IF res.outcome = "fail" /\ ~Caught(res.err)
                    THEN Exit(1, TRUE) /\ UNCHANGED <<idx, matched_ids, results>>
                    ELSE /\ idx' = idx + 1
                         /\ matched_ids' = IF res.outcome = "match"
                                           THEN AppendMatched(matched_ids, res.id)
                                           ELSE matched_ids
                         /\ results' = Append(results,
                                [title |-> title, outcome |-> res.outcome, id |-> res.id])
                         /\ UNCHANGED <<pc, exit_code, raised>>
    /\ UNCHANGED <<env, args, setlistfm, printed_ok, setlist_id, js, all_songs,
                   songs, create_answer, fn_in, fn_out>>

\* lines 168-170, after the loop
EndLoop ==
    /\ pc = "loop"
    /\ idx > Len(songs)
    /\ IF NothingMatched(matched_ids) THEN Exit(1, FALSE)
       ELSE pc' = "create" /\ UNCHANGED <<exit_code, raised>>
    /\ UNCHANGED <<env, args, setlistfm, printed_ok, setlist_id, js, all_songs,
                   songs, idx, matched_ids, results, requests, create_answer, fn_in, fn_out>>

\* lines 172-175
CreatePlaylist ==
    /\ pc = "create"
    /\ \E salt \in random_salt, answer \in CreateAnswers :
         /\ requests' = Append(requests,
                Request("createPlaylist",
                        subsonic_params(env.NAV_USERNAME, env.NAV_PASSWORD, salt),
                        SongIdParams(matched_ids), args.playlist_name))
         /\ create_answer' = answer
         /\ IF answer.kind = "timeout" \/ RaisesForStatus(answer.status)
            THEN Exit(1, TRUE) /\ printed_ok' = printed_ok
            ELSE Exit(0, FALSE) /\ printed_ok' = TRUE
    /\ UNCHANGED <<env, args, setlistfm, setlist_id, js, all_songs, songs, idx,
                   matched_ids, results, fn_in, fn_out>>

Next ==
    \/ ValidateConfig
    \/ FetchSetlist
    \/ ParseSetlist
    \/ SearchTitle
    \/ EndLoop
    \/ CreatePlaylist

ValidEnv == [SETLISTFM_API_KEY |-> "key", NAV_BASE_URL |-> "http://nd:4533",
             NAV_USERNAME |-> "user", NAV_PASSWORD |-> "pw"]

InitRun(envs, argses, answers) ==
    /\ env \in envs
    /\ args \in argses
    /\ setlistfm \in answers
    /\ pc = "start"
    /\ exit_code = 0
    /\ raised = FALSE
    /\ printed_ok = FALSE
    /\ setlist_id = NoStr
    /\ js = NoDoc
    /\ all_songs = <<>>
    /\ songs = <<>>
    /\ idx = 1
    /\ matched_ids = <<>>
    /\ results = <<>>
    /\ requests = <<>>
    /\ create_answer = NoAnswer
    /\ fn_in = NoneVal
    /\ fn_out = NoneVal

Init ==
    InitRun({ValidEnv},
            [setlist_id : {Str(<<"7", "b">>)}, setlist_url : {NoStr},
             playlist_name : {"pl"}, artist : {NoneVal, "Art"},
             max_songs : {-1, 0, 1, 2, DefaultMaxSongs}],
            FetchAnswers(RunDocs))

Spec == Init /\ [][Next]_vars

\* runs over every combination of present, empty and absent configuration
\* values and setlist references, against one fixed setlist
InitConfig ==
    InitRun([SETLISTFM_API_KEY : {NoneVal, "", "key"},
             NAV_BASE_URL : {NoneVal, "", "http://nd:4533"},
             NAV_USERNAME : {NoneVal, "", "user"},
             NAV_PASSWORD : {NoneVal, "", "pw"}],
            [setlist_id : {NoStr, Str(<<>>), Str(<<"7", "b">>)},
             setlist_url : {NoStr, Str(<<>>), Str(<<"/">>), Str(<<"/", "/">>),
                            Str(<<"s", "/", "x">>), Str(<<"s", "/", "x", "/">>)},
             playlist_name : {"pl"}, artist : {"Art"},
             max_songs : {DefaultMaxSongs}],
            FetchAnswers({[artist |-> [kind |-> "obj", name |-> "Band"],
                           sets |-> [kind |-> "obj",
                                     set |-> ListField(<<ListField(<<"A">>)>>)]]}))

SpecConfig == InitConfig /\ [][Next]_vars

----------------------------------------------------------------------------
(* Function-level specifications: one function applied to a drawn input *)

InitFn(inputs, start) ==
    /\ env = ValidEnv
    /\ args = [setlist_id |-> NoStr, setlist_url |-> NoStr, playlist_name |-> "pl",
               artist |-> NoneVal, max_songs |-> DefaultMaxSongs]
    /\ setlistfm = [kind |-> "timeout", status |-> 0, json |-> FALSE, body |-> NoDoc]
    /\ pc = start
    /\ exit_code = 0
    /\ raised = FALSE
    /\ printed_ok = FALSE
    /\ setlist_id = NoStr
    /\ js = NoDoc
    /\ all_songs = <<>>
    /\ songs = <<>>
    /\ idx = 1
    /\ matched_ids = <<>>
    /\ results = <<>>
    /\ requests = <<>>
    /\ create_answer = NoAnswer
    /\ fn_in \in inputs
    /\ fn_out = NoneVal

FnUnchanged ==
    UNCHANGED <<env, args, setlistfm, exit_code, raised, printed_ok, setlist_id,
                js, all_songs, songs, idx, matched_ids, results, requests,
                create_answer, fn_in>>

ApplyParse ==
    /\ pc = "fn_parse"
    /\ fn_out' = parse_songs_from_setlist(fn_in)
    /\ pc' = "fn_done"
    /\ FnUnchanged

InitParse == InitFn(ParseDocs, "fn_parse")

SpecParse == InitParse /\ [][ApplyParse]_vars

\* extract_song_ids_from_search_xml applied to a well-formed answer, and the
\* choice main() makes from its result
ApplyExtract ==
    /\ pc = "fn_extract"
    /\ fn_out' = [ids |-> extract_song_ids_from_search_xml(fn_in),
                  res |-> SearchResult([kind |-> "response", status |-> 200,
                                        wellformed |-> TRUE, xml |-> fn_in])]
    /\ pc' = "fn_done"
    /\ FnUnchanged

InitExtract == InitFn(XmlDocs(MaxSongElems), "fn_extract")

SpecExtract == InitExtract /\ [][ApplyExtract]_vars

----------------------------------------------------------------------------
(* Vocabulary of the properties *)

OfKind(kinds) == SelectSeq(requests, LAMBDA r : r.kind \in kinds)

FetchReqs == OfKind({"fetch"})

SearchReqs == OfKind({"search3"})

CreateReqs == OfKind({"createPlaylist"})

AuthReqs == OfKind({"search3", "createPlaylist"})

MatchedResults == SelectSeq(results, LAMBDA r : r.outcome = "match")

ChosenIds == [i \in 1..Len(MatchedResults) |-> MatchedResults[i].id]

Rank(kind) == CASE kind = "fetch" -> 0 [] kind = "search3" -> 1 [] OTHER -> 2

\* the run got past validation, fetch and parse without an unhandled failure
\* and has ended
EndedAfterParse == pc = "done" /\ exit_code # 2 /\ (raised => CreateReqs # <<>>)

----------------------------------------------------------------------------
(* C1 *)

\* C1: the ids handed to create_playlist are exactly the chosen ids of the
\* matched titles in setlist order: results follow the titles one by one,
\* matched_ids is at every moment the sequence of ids of the matched results
\* (no placeholder for an unmatched title, one entry per duplicate), and a
\* createPlaylist request carries that sequence as songId[0..] once every
\* title has been processed.
C1_OrderPreserved ==
    /\ Len(results) <= Len(songs)
    /\ \A k \in 1..Len(results) : results[k].title = songs[k]
    /\ matched_ids = ChosenIds
    /\ \A i \in 1..Len(CreateReqs) :
          /\ Len(results) = Len(songs)
          /\ CreateReqs[i].arg = [j \in 0..(Len(ChosenIds) - 1) |-> ChosenIds[j + 1]]

C1_Witness ==
    /\ pc = "done"
    /\ CreateReqs # <<>>
    /\ matched_ids = <<"id2", "id1">>

----------------------------------------------------------------------------
(* C2 *)

\* the run ended in an unhandled exception raised inside the search loop
AbortedInLoop == pc = "done" /\ raised /\ songs # <<>> /\ CreateReqs = <<>>

C2_State ==
    /\ ~AbortedInLoop
    /\ (pc \in {"create", "done"} /\ songs # <<>>) => Len(results) = Len(songs)
    /\ (pc \in {"create", "done"} /\ SearchReqs # <<>>) => Len(SearchReqs) = Len(songs)
    /\ (pc = "done" /\ MatchedResults # <<>>) => CreateReqs # <<>>

C2_Step ==
    (Len(results') = Len(results) + 1 /\ results'[Len(results')].outcome = "fail")
    => (matched_ids' = matched_ids /\ pc' = "loop" /\ idx' = idx + 1 /\ ~raised')

\* C2: a failed search (HTTP error status, timeout, malformed XML) never
\* aborts the run: the step that records the failure leaves matched_ids
\* unchanged and moves to the next title, no run ends by an exception raised
\* in the loop, every title of the truncated sequence is processed (and, once
\* one search request went out, searched), and a run in which some title
\* matched reaches the createPlaylist request.
C2_FailureSkipped == [](C2_State) /\ [][C2_Step]_vars

C2_Witness ==
    /\ pc = "done"
    /\ Len(results) = 2
    /\ Len(SearchReqs) = 2
    /\ results[1].outcome = "fail"
    /\ results[2].outcome = "match"
    /\ CreateReqs # <<>>

----------------------------------------------------------------------------
(* C3 *)

\* C3: a run whose setlist yields no titles exits 1 having issued only the
\* fetch; a run in which no searched title matched exits 1 without a
\* createPlaylist request; every createPlaylist request carries at least one
\* id; a run that exits 0 has issued one.
C3_NothingToCreate ==
    /\ (EndedAfterParse /\ all_songs = <<>>)
          => (exit_code = 1 /\ Len(requests) = 1 /\ requests[1].kind = "fetch")
    /\ (EndedAfterParse /\ all_songs # <<>> /\ MatchedResults = <<>>)
          => (exit_code = 1 /\ CreateReqs = <<>> /\ ~printed_ok)
    /\ \A i \in 1..Len(CreateReqs) : DOMAIN CreateReqs[i].arg # {}
    /\ (pc = "done" /\ exit_code = 0)
          => (Len(CreateReqs) = 1 /\ DOMAIN CreateReqs[1].arg # {})

C3_Witness ==
    /\ pc = "done"
    /\ exit_code = 1
    /\ ~raised
    /\ Len(results) = 2
    /\ results[1].outcome = "nomatch"
    /\ results[2].outcome = "fail"

----------------------------------------------------------------------------
(* C4 *)

\* C4: whenever createPlaylist is answered with a status outside 2xx, the run
\* ends with a non-zero exit status and the success message is not printed.
C4_NonSuccessIsFatal ==
    (pc = "done" /\ create_answer.kind = "response"
        /\ ~(create_answer.status \in 200..299))
    => (exit_code # 0 /\ ~printed_ok)

----------------------------------------------------------------------------
(* C5 *)

RequiredKeys == {"SETLISTFM_API_KEY", "NAV_BASE_URL", "NAV_USERNAME", "NAV_PASSWORD"}

MissingRequired == \E k \in RequiredKeys : env[k] \in {NoneVal, ""}

\* no --setlist-id, and a --setlist-url that is absent or made of "/" only
NoSetlistReference ==
    /\ ~args.setlist_id.some \/ args.setlist_id.s = <<>>
    /\ \/ ~args.setlist_url.some
       \/ \A i \in 1..Len(args.setlist_url.s) : args.setlist_url.s[i] = "/"

\* C5: with a required configuration value absent or empty, or without a
\* non-empty setlist identifier, no request is ever issued and the run ends
\* with exit status 2 (not by an exception).
C5_FailFast ==
    (MissingRequired \/ NoSetlistReference)
    => /\ requests = <<>>
       /\ pc \in {"start", "done"}
       /\ pc = "done" => (exit_code = 2 /\ ~raised)

C5_Witness ==
    /\ pc = "done"
    /\ exit_code = 2
    /\ ~MissingRequired
    /\ args.setlist_url = Str(<<"/", "/">>)

----------------------------------------------------------------------------
(* C6 *)

\* C6: the titles passed to matching are the prefix of the extracted titles
\* of length min(N, total_titles), for every integer N given as --max-songs.
C6_TruncatedToMin ==
    pc \in {"loop", "create", "done"}
    => songs = SubSeq(all_songs, 1, Min(args.max_songs, Len(all_songs)))

----------------------------------------------------------------------------
(* C7 *)

WithId(xml) == SelectSeq(xml, LAMBDA e : e.id \notin {NoneVal, ""})

\* C7: the candidates are the song elements that carry an id, in the order
\* of the answer, and the id chosen is that of the first of them, for
\* namespaced, non-namespaced and mixed answers alike.
C7_FirstInServerOrder ==
    pc = "fn_done"
    => /\ Len(fn_out.ids) = Len(WithId(fn_in))
       /\ \A i \in 1..Len(fn_out.ids) : fn_out.ids[i][1] = WithId(fn_in)[i].id
       /\ WithId(fn_in) # <<>>
             => (fn_out.res.outcome = "match" /\ fn_out.res.id = WithId(fn_in)[1].id)

----------------------------------------------------------------------------
(* C8 *)

\* the names of the song entries of a document, sets in order, songs in order
ListedSets(doc) ==
    IF doc.sets.kind \in {"list", "obj"} /\ doc.sets.set.kind = "list"
    THEN doc.sets.set.items ELSE <<>>

EntriesOfSet(s) == IF s.kind = "list" THEN s.items ELSE <<>>

RECURSIVE NamedSongs(_)
NamedSongs(ss) ==
    IF ss = <<>> THEN <<>>
    ELSE SelectSeq(EntriesOfSet(Head(ss)), LAMBDA n : n \notin {NoneVal, ""})
         \o NamedSongs(Tail(ss))

\* C8: for every document parse_songs_from_setlist returns, without raising,
\* the non-empty names of all song entries in document order, also when the
\* sets are given as a list of sets, and the empty sequence when "sets" or
\* "song" is missing.
C8_AllNamedSongs ==
    pc = "fn_done"
    => (~fn_out.raised /\ fn_out.songs = NamedSongs(ListedSets(fn_in)))

----------------------------------------------------------------------------
(* C9 *)

\* C9 as stated: any two authenticated requests of a run carry different
\* salts and different tokens.
C9_SaltsNeverReused ==
    \A i, j \in 1..Len(AuthReqs) :
        i # j => (AuthReqs[i].s # AuthReqs[j].s /\ AuthReqs[i].t # AuthReqs[j].t)

\* C9 (amended): every authenticated request carries the account name, an
\* 8-character salt returned by random_salt and the token md5(secret + that
\* salt); requests with the same salt carry the same token, and nothing
\* excludes two requests drawing the same salt.
C9_TokenFromOwnSalt ==
    /\ \A i \in 1..Len(AuthReqs) :
          /\ AuthReqs[i].s \in random_salt
          /\ AuthReqs[i].u = env.NAV_USERNAME
          /\ AuthReqs[i].t = md5hex(env.NAV_PASSWORD \o AuthReqs[i].s)
    /\ \A i, j \in 1..Len(AuthReqs) :
          AuthReqs[i].s = AuthReqs[j].s => AuthReqs[i].t = AuthReqs[j].t

C9_Witness ==
    /\ Len(AuthReqs) >= 2
    /\ AuthReqs[1].kind = "search3"
    /\ AuthReqs[Len(AuthReqs)].kind = "createPlaylist"
    /\ AuthReqs[1].s # AuthReqs[Len(AuthReqs)].s
    /\ AuthReqs[1].t # AuthReqs[Len(AuthReqs)].t

----------------------------------------------------------------------------
(* C10 *)

\* the requests come in the order fetch, searches, createPlaylist, with one
\* fetch, the k-th search being for the k-th title, and createPlaylist only
\* after a search for every title
RequestsInOrder ==
    /\ requests # <<>> => requests[1].kind = "fetch"
    /\ Len(FetchReqs) <= 1
    /\ \A i, j \in 1..Len(requests) :
          i < j => Rank(requests[i].kind) <= Rank(requests[j].kind)
    /\ Len(SearchReqs) <= Len(songs)
    /\ \A k \in 1..Len(SearchReqs) : SearchReqs[k].title = songs[k]
    /\ Len(CreateReqs) <= 1
    /\ CreateReqs # <<>> => Len(SearchReqs) = Len(songs)

\* a run that went through the loop has searched every title once
EveryTitleSearched ==
    (pc \in {"create", "done"} /\ songs # <<>>)
    => (Len(FetchReqs) = 1 /\ Len(SearchReqs) = Len(songs))

FetchFailed ==
    setlistfm.kind = "timeout" \/ setlistfm.status # 200 \/ ~setlistfm.json

FailedFetchEndsRun ==
    (FetchFailed /\ requests # <<>>) => (Len(requests) = 1 /\ pc = "done")

\* C10: one setlist fetch, then exactly one search request per title of the
\* truncated sequence in setlist order, then at most one createPlaylist
\* request, issued only after the search for the last title; a failed fetch
\* ends the run with no further request.
C10_RequestSequence ==
    RequestsInOrder /\ EveryTitleSearched /\ FailedFetchEndsRun

====
